---- MODULE Spec2Model ----
(***************************************************************************)
(* Model of mcp-context-rust: the `.rustscp` project context file          *)
(* (src/rustscp.rs), the observation archive (src/observations.rs) and the *)
(* pure helpers they use.                                                  *)
(*                                                                         *)
(* The specifications share the variables:                                 *)
(*   Spec     callers analysing, saving and loading one project directory, *)
(*            at most one save in flight;                                  *)
(*   SpecRace the same callers with no such limit;                         *)
(*   SpecObs  the observation archive under save and get;                  *)
(*   SpecFmt  from_analysis and format_for_claude applied to inputs drawn  *)
(*            from bounded sets;                                           *)
(*   SpecMain the binary's entry point (src/main.rs) run on an argument    *)
(*            list and a project directory;                                *)
(*   SpecUtil SeverityLevel's derived ordering (src/types.rs) and          *)
(*            truncate_string (src/utils/mod.rs) applied to bounded inputs.*)
(***************************************************************************)
EXTENDS Integers, Sequences, FiniteSets, TLC

VARIABLES
    now,          \* the wall clock read by Utc::now()
    file,         \* <project_dir>/.rustscp : absent, or its text
    ctx,          \* ctx[c]: the ProjectContext caller c holds (Option)
    pc,           \* pc[c]: "idle", or "write" between save's load and its fs::write
    pending,      \* pending[c]: the json save has serialized and not yet written
    ret,          \* what the operation that just returned gave its caller
    firstCreated, \* history: created_at written by the first successful save
    seen,         \* history: seen[c] is the file as save's load found it, while c saves
    lastSaved,    \* history: the updated_at the latest successful save wrote (Option)
    savedCtx,     \* history: what the last writer held after its successful save
    cacheDirExists, \* the archive directory exists
    obsFiles,     \* archive directory: file name -> text
    usedIds,      \* history: the uuids new_v4 has handed out
    archived,     \* history: obs_id string -> content, for every successful save
    lastObs,      \* history: the id and content of the latest successful archive save
    obsRes,       \* outcome of the last archive operation
    analysis,     \* SpecFmt: the AnalysisResult under test
    built,        \* SpecFmt: from_analysis(analysis) (Option)
    rendered,     \* SpecFmt: format_for_claude output, as lines (Option)
    main,         \* SpecMain: the process running main(): position, args, streams, exit
    util          \* SpecUtil: inputs and results of the pure helpers under test

ctxVars == <<now, file, ctx, pc, pending, ret, firstCreated, savedCtx, seen, lastSaved>>
obsVars == <<cacheDirExists, obsFiles, usedIds, archived, lastObs, obsRes>>
fmtVars == <<analysis, built, rendered>>
auxVars == <<main, util>>
vars == <<now, file, ctx, pc, pending, ret, firstCreated, savedCtx, seen, lastSaved,
          cacheDirExists, obsFiles, usedIds, archived, lastObs, obsRes,
          analysis, built, rendered, main, util>>

\* ------------------------------------------------------------------ bounds
MaxClock == 3
MaxStrLen == 5
NumIds == 2
MaxDeps == 2
MaxFiles == 3
MaxPatterns == 2
TicksPerSec == 2

\* Two callers of the Context Synthesizer working on the same project directory.
Callers == {"a", "b"}

\* ------------------------------------------------------------ Option<T>
None == [some |-> FALSE]
Some(x) == [some |-> TRUE, v |-> x]

OrElse(a, b) == IF a.some THEN a ELSE b

\* ------------------------------------------------------------ types.rs
ProjectTypes == {"DotNet", "Rust", "Node", "Python", "Go", "Java", "Php", "Unknown"}

\* The variant name, as {:?} prints it.
as_strDebug(pt) == pt

as_str(pt) ==
    CASE pt = "DotNet" -> "dotnet"
      [] pt = "Rust" -> "rust"
      [] pt = "Node" -> "node"
      [] pt = "Python" -> "python"
      [] pt = "Go" -> "go"
      [] pt = "Java" -> "java"
      [] pt = "Php" -> "php"
      [] pt = "Unknown" -> "unknown"

SeverityLevels == <<"Info", "Warning", "Error">>

\* ------------------------------------------------- rustscp.rs: from_analysis
\* dependencies.iter().map(|d| DepSummary {..}).collect()
DepSummaryOf(d) == [name |-> d.name, version |-> d.version, dev |-> d.dev_only]

\* for file in &project.files { *by_extension.entry(file.language).or_default() += 1 }
CountByLanguage(files) ==
    [l \in {files[i].language : i \in DOMAIN files} |->
        Cardinality({i \in DOMAIN files : files[i].language = l})]

\* patterns.iter().map(|p| PatternRef {..}).collect()
PatternRefWithCode(p) ==
    [id |-> p.id, title |-> p.title, category |-> p.category,
     score |-> p.relevance_score, code |-> p.code]

PatternRefOf(p) ==
    [id |-> p.id, title |-> p.title, category |-> p.category, score |-> p.relevance_score]

ResolveFrameworkNodeFirst(m) ==
    OrElse(m.target_framework,
           OrElse(m.node_version, OrElse(m.rust_edition, m.python_version)))

\* target_framework.or_else(rust_edition).or_else(node_version).or_else(python_version)
ResolveFramework(m) ==
    OrElse(m.target_framework,
           OrElse(m.rust_edition, OrElse(m.node_version, m.python_version)))

from_analysis(a, t) ==
    [version |-> 1,
     name |-> a.project.name,
     project_type |-> as_str(a.project.project_type),
     framework |-> ResolveFramework(a.project.metadata),
     dependencies |->
        [i \in DOMAIN a.project.dependencies |-> DepSummaryOf(a.project.dependencies[i])],
     stats |-> [total_files |-> Len(a.project.files),
                by_extension |-> CountByLanguage(a.project.files)],
     matched_patterns |-> [i \in DOMAIN a.patterns |-> PatternRefOf(a.patterns[i])],
     created_at |-> t,
     updated_at |-> t]

\* ------------------------------------------- serde: the context file's json
\* chrono's serde form of DateTime<Utc>: RFC 3339 with the sub-second digits kept.
FormatTimeSecs(t) == [secs |-> t \div TicksPerSec, frac |-> 0]
FormatTime(t) == [secs |-> t \div TicksPerSec, frac |-> t % TicksPerSec]
ParseTime(j) == j.secs * TicksPerSec + j.frac

\* #[serde(default, skip_serializing_if = "std::ops::Not::not")] pub dev: bool
DepToJson(d) ==
    IF d.dev THEN [name |-> d.name, version |-> d.version, dev |-> TRUE]
    ELSE [name |-> d.name, version |-> d.version]
DepFromJson(o) ==
    [name |-> o.name, version |-> o.version,
     dev |-> IF "dev" \in DOMAIN o THEN o.dev ELSE FALSE]

OptToJson(o) == IF o.some THEN [j |-> "string", s |-> o.v] ELSE [j |-> "null"]
OptFromJson(j) == IF j.j = "null" THEN None ELSE Some(j.s)

\* serde_json::to_string_pretty(self)
to_json(c) ==
    [t |-> "object",
     v |-> [version |-> c.version,
            name |-> c.name,
            project_type |-> c.project_type,
            framework |-> OptToJson(c.framework),
            dependencies |-> [i \in DOMAIN c.dependencies |-> DepToJson(c.dependencies[i])],
            stats |-> c.stats,
            matched_patterns |-> c.matched_patterns,
            created_at |-> FormatTime(c.created_at),
            updated_at |-> FormatTime(c.updated_at)]]

\* Fields the derived Deserialize requires; an Option field may be missing.
RequiredFields ==
    {"version", "name", "project_type", "dependencies", "stats",
     "matched_patterns", "created_at", "updated_at"}

\* serde_json::from_str::<ProjectContext>(&content)
from_json(text) ==
    IF text.t # "object" THEN [ok |-> FALSE]
    ELSE IF ~(RequiredFields \subseteq DOMAIN text.v) THEN [ok |-> FALSE]
    ELSE LET o == text.v IN
         [ok |-> TRUE,
          ctx |-> [version |-> o.version,
                   name |-> o.name,
                   project_type |-> o.project_type,
                   framework |-> IF "framework" \in DOMAIN o
                                 THEN OptFromJson(o.framework) ELSE None,
                   dependencies |->
                       [i \in DOMAIN o.dependencies |-> DepFromJson(o.dependencies[i])],
                   stats |-> o.stats,
                   matched_patterns |-> o.matched_patterns,
                   created_at |-> ParseTime(o.created_at),
                   updated_at |-> ParseTime(o.updated_at)]]

\* ------------------------------------------------------- rustscp.rs: load
Absent == [exists |-> FALSE]
FileWith(text) == [exists |-> TRUE, text |-> text]

\* Text that is not json at all: what a write cut short leaves behind.
Garbage == [t |-> "garbage"]

OkNone == [kind |-> "none"]
OkSome(c) == [kind |-> "some", ctx |-> c]
Err(why) == [kind |-> "err", why |-> why]

loadLenient(f) ==
    IF ~f.exists THEN OkNone
    ELSE LET parsed == from_json(f.text) IN
         IF parsed.ok THEN OkSome(parsed.ctx) ELSE OkNone

load(f) ==
    IF ~f.exists THEN OkNone
    ELSE LET parsed == from_json(f.text) IN
         IF parsed.ok THEN OkSome(parsed.ctx) ELSE Err("Failed to parse")

\* ------------------------------------------------------------ sample inputs
NoMetadata ==
    [target_framework |-> None, rust_edition |-> None,
     node_version |-> None, python_version |-> None]

Dep(n, v, d) == [name |-> n, version |-> v, dev_only |-> d]
SourceFile(l) == [language |-> l]
Pattern(i, t, c, s) ==
    [id |-> i, title |-> t, category |-> c, relevance_score |-> s, code |-> "fn body() {}"]

MkAnalysis(n, pt, deps, files, meta, pats) ==
    [project |-> [name |-> n, project_type |-> pt, dependencies |-> deps,
                  files |-> files, metadata |-> meta],
     patterns |-> pats]

AnalysisAlpha ==
    MkAnalysis("alpha", "Rust",
               <<Dep("serde", "1.0", FALSE), Dep("tempfile", "3", TRUE)>>,
               <<SourceFile("rs"), SourceFile("toml"), SourceFile("rs")>>,
               [NoMetadata EXCEPT !.rust_edition = Some("2021")],
               <<Pattern("p1", "Error handling", "errors", 874)>>)

AnalysisBeta == MkAnalysis("beta", "DotNet", <<>>, <<>>, NoMetadata, <<>>)

\* What each caller's analysis of the project found.
AnalysisOf(c) == IF c = "a" THEN AnalysisAlpha ELSE AnalysisBeta

\* A context file of the other (compact) schema: json, but not a ProjectContext.
ForeignJson ==
    [t |-> "object",
     v |-> [version |-> 1, name |-> "alpha", summary |-> "s",
            created_at |-> FormatTime(0), updated_at |-> FormatTime(0)]]

\* A context file an earlier run of the program left behind.
EarlierJson == to_json(from_analysis(AnalysisBeta, 0))

\* ------------------------------------------------------- rustscp.rs: save
NoRet == [op |-> "none"]
NoneSeen == seen = [c \in Callers |-> Absent] /\ lastSaved = None

\* The spec's deployment assumption: at most one save in flight per directory.
NoSaveInFlight == \A d \in Callers : pc[d] = "idle"

\* Utc::now() while the clock runs.
Tick ==
    /\ now < MaxClock
    /\ now' = now + 1
    /\ ret' = NoRet
    /\ UNCHANGED <<file, ctx, pc, pending, firstCreated, savedCtx, seen, lastSaved>>

\* ProjectContext::from_analysis(&analysis): a freshly built context.
Analyze(c) ==
    /\ pc[c] = "idle"
    /\ ctx' = [ctx EXCEPT ![c] = Some(from_analysis(AnalysisOf(c), now))]
    /\ ret' = NoRet
    /\ UNCHANGED <<now, file, pc, pending, firstCreated, savedCtx, seen, lastSaved>>

\* if let Some(existing) = Self::load(project_dir)? { self.created_at = existing.created_at }
NoCarry(self, existing) == self

CarryCreatedAt(self, existing) ==
    IF existing.kind = "some" THEN [self EXCEPT !.created_at = existing.ctx.created_at]
    ELSE self

SaveRet(c, status, held) == [op |-> "save", by |-> c, status |-> status, held |-> held]

\* A save that stamps updated_at before it looks at the existing file.
SaveLoadStampFirst(c) ==
    /\ pc[c] = "idle"
    /\ ctx[c].some
    /\ LET existing == load(file)
           stamped == [ctx[c].v EXCEPT !.updated_at = now]
       IN IF existing.kind = "err"
          THEN /\ ret' = SaveRet(c, "err", stamped)
               /\ ctx' = [ctx EXCEPT ![c] = Some(stamped)]
               /\ UNCHANGED <<pc, pending, seen>>
          ELSE LET self == CarryCreatedAt(stamped, existing) IN
               /\ ctx' = [ctx EXCEPT ![c] = Some(self)]
               /\ pending' = [pending EXCEPT ![c] = to_json(self)]
               /\ pc' = [pc EXCEPT ![c] = "write"]
               /\ seen' = [seen EXCEPT ![c] = file]
               /\ ret' = NoRet
    /\ UNCHANGED <<now, file, firstCreated, savedCtx, lastSaved>>

\* A save that leaves updated_at as the caller has it.
SaveLoadNoStamp(c) ==
    /\ pc[c] = "idle"
    /\ ctx[c].some
    /\ LET existing == load(file) IN
       IF existing.kind = "err"
       THEN /\ ret' = SaveRet(c, "err", ctx[c].v)
            /\ UNCHANGED <<ctx, pc, pending, seen>>
       ELSE LET self == CarryCreatedAt(ctx[c].v, existing) IN
            /\ ctx' = [ctx EXCEPT ![c] = Some(self)]
            /\ pending' = [pending EXCEPT ![c] = to_json(self)]
            /\ pc' = [pc EXCEPT ![c] = "write"]
            /\ seen' = [seen EXCEPT ![c] = file]
            /\ ret' = NoRet
    /\ UNCHANGED <<now, file, firstCreated, savedCtx, lastSaved>>

\* save, lines 129-138: load (whose error `?` returns), carry created_at, stamp
\* updated_at, serialize.
SaveLoad(c) ==
    /\ pc[c] = "idle"
    /\ ctx[c].some
    /\ LET existing == load(file) IN
       IF existing.kind = "err"
       THEN /\ ret' = SaveRet(c, "err", ctx[c].v)
            /\ UNCHANGED <<ctx, pc, pending, seen>>
       ELSE LET self == [CarryCreatedAt(ctx[c].v, existing) EXCEPT !.updated_at = now] IN
            /\ ctx' = [ctx EXCEPT ![c] = Some(self)]
            /\ pending' = [pending EXCEPT ![c] = to_json(self)]
            /\ pc' = [pc EXCEPT ![c] = "write"]
            /\ seen' = [seen EXCEPT ![c] = file]
            /\ ret' = NoRet
    /\ UNCHANGED <<now, file, firstCreated, savedCtx, lastSaved>>

\* What save's write step returns, with the history of the call: how fs::write
\* went, the file its load found, and the context another caller's successful
\* save has put on disk since that load (None when nothing did).
SaveWriteRet(c, status, io) ==
    [op |-> "save", by |-> c, status |-> status, held |-> ctx[c].v, io |-> io,
     seen |-> seen[c],
     overtaken |-> IF file # seen[c] /\ savedCtx.some /\ file = FileWith(to_json(savedCtx.v))
                   THEN savedCtx ELSE None]

\* A write step that gives up when the file is no longer what load found.
SaveWriteChecked(c, io) ==
    /\ pc[c] = "write"
    /\ pc' = [pc EXCEPT ![c] = "idle"]
    /\ pending' = [pending EXCEPT ![c] = Garbage]
    /\ seen' = [seen EXCEPT ![c] = Absent]
    /\ IF io = "ok" /\ file = seen[c]
       THEN /\ file' = FileWith(pending[c])
            /\ ret' = SaveWriteRet(c, "ok", io)
            /\ savedCtx' = Some(ctx[c].v)
            /\ lastSaved' = Some(ctx[c].v.updated_at)
            /\ firstCreated' = IF firstCreated.some THEN firstCreated
                               ELSE Some([at |-> ParseTime(pending[c].v.created_at), by |-> c])
       ELSE /\ ret' = SaveWriteRet(c, "err", io)
            /\ UNCHANGED <<file, savedCtx, firstCreated, lastSaved>>
    /\ UNCHANGED <<now, ctx>>

\* save, lines 139-143: std::fs::write(&file_path, &json), which may fail before
\* it creates the file ("create") or after it truncated it ("write").
SaveWrite(c, io) ==
    /\ pc[c] = "write"
    /\ pc' = [pc EXCEPT ![c] = "idle"]
    /\ pending' = [pending EXCEPT ![c] = Garbage]
    /\ seen' = [seen EXCEPT ![c] = Absent]
    /\ IF io = "ok"
       THEN /\ file' = FileWith(pending[c])
            /\ ret' = SaveWriteRet(c, "ok", io)
            /\ savedCtx' = Some(ctx[c].v)
            /\ lastSaved' = Some(ctx[c].v.updated_at)
            /\ firstCreated' = IF firstCreated.some THEN firstCreated
                               ELSE Some([at |-> ParseTime(pending[c].v.created_at), by |-> c])
       ELSE /\ file' = IF io = "create" THEN file ELSE FileWith(Garbage)
            /\ ret' = SaveWriteRet(c, "err", io)
            /\ savedCtx' = IF io = "create" THEN savedCtx ELSE None
            /\ UNCHANGED <<firstCreated, lastSaved>>
    /\ UNCHANGED <<now, ctx>>

\* ProjectContext::load(project_dir) by a caller; the return value is kept with
\* the file it ran against and the history at that moment.
Load(c) ==
    /\ pc[c] = "idle"
    /\ ret' = [op |-> "load", by |-> c, out |-> load(file), snap |-> file,
               expect |-> savedCtx, first |-> firstCreated]
    /\ UNCHANGED <<now, file, ctx, pc, pending, firstCreated, savedCtx, seen, lastSaved>>

ObsIdle ==
    /\ cacheDirExists = FALSE /\ obsFiles = <<>> /\ usedIds = {} /\ archived = <<>>
    /\ lastObs = None /\ obsRes = [op |-> "none"]
FmtIdle == analysis = AnalysisBeta /\ built = None /\ rendered = None

\* main() not entered: no arguments read, nothing written, nothing set up.
NotExited == [how |-> "running", code |-> 0]
MainAt(at, args) ==
    [at |-> at, args |-> args, stdout |-> <<>>, stderr |-> <<>>, exit |-> NotExited,
     tracing |-> FALSE, server |-> "none"]
MainIdle == main = MainAt("start", <<"mcp-context-rust">>)

\* The helpers' inputs: three severity levels, a string and a length; no result yet.
UtilAt(levels, s, max_len) ==
    [levels |-> levels, s |-> s, max_len |-> max_len, order |-> None, out |-> None]
UtilIdle == util = UtilAt(<<"Info", "Info", "Info">>, <<>>, 0)
AuxIdle == MainIdle /\ UtilIdle

Init ==
    /\ now = 0
    /\ file \in {Absent, FileWith(Garbage), FileWith(ForeignJson), FileWith(EarlierJson)}
    /\ ctx = [c \in Callers |-> None]
    /\ pc = [c \in Callers |-> "idle"]
    /\ pending = [c \in Callers |-> Garbage]
    /\ ret = NoRet
    /\ firstCreated = None
    /\ savedCtx = None
    /\ NoneSeen
    /\ ObsIdle
    /\ FmtIdle
    /\ AuxIdle

Next ==
    \/ Tick /\ UNCHANGED <<obsVars, fmtVars, auxVars>>
    \/ \E c \in Callers : Analyze(c) /\ UNCHANGED <<obsVars, fmtVars, auxVars>>
    \/ \E c \in Callers : NoSaveInFlight /\ SaveLoad(c) /\ UNCHANGED <<obsVars, fmtVars, auxVars>>
    \/ \E c \in Callers, io \in {"ok", "create", "write"} :
          SaveWrite(c, io) /\ UNCHANGED <<obsVars, fmtVars, auxVars>>
    \/ \E c \in Callers : Load(c) /\ UNCHANGED <<obsVars, fmtVars, auxVars>>

Spec == Init /\ [][Next]_vars

\* Nothing in save or in its callers keeps two saves on one directory apart.
RaceNext ==
    \/ Tick /\ UNCHANGED <<obsVars, fmtVars, auxVars>>
    \/ \E c \in Callers : Analyze(c) /\ UNCHANGED <<obsVars, fmtVars, auxVars>>
    \/ \E c \in Callers : SaveLoad(c) /\ UNCHANGED <<obsVars, fmtVars, auxVars>>
    \/ \E c \in Callers, io \in {"ok", "create", "write"} :
          SaveWrite(c, io) /\ UNCHANGED <<obsVars, fmtVars, auxVars>>
    \/ \E c \in Callers : Load(c) /\ UNCHANGED <<obsVars, fmtVars, auxVars>>

SpecRace == Init /\ [][RaceNext]_vars

\* ------------------------------------------------ uuid: text and parsing
\* Text is a sequence of one-character strings.
HexLower == <<"0", "1", "2", "3", "4", "5", "6", "7", "8", "9", "a", "b", "c", "d", "e", "f">>
HexUpper == <<"0", "1", "2", "3", "4", "5", "6", "7", "8", "9", "A", "B", "C", "D", "E", "F">>

IsHexChar(ch) == \E k \in 1..16 : ch = HexLower[k] \/ ch = HexUpper[k]
HexValue(ch) == (CHOOSE k \in 1..16 : ch = HexLower[k] \/ ch = HexUpper[k]) - 1

\* Where the hyphenated form has its hyphens.
HyphenAt == {9, 14, 19, 24}

\* A Uuid is its 32 hex digits (16 bytes). Display writes them lower-case in
\* groups of 8-4-4-4-12: the 36-character form Uuid::to_string gives.
SimpleForm(u) == [i \in 1..32 |-> HexLower[u[i] + 1]]

Hyphenated(u) ==
    [i \in 1..36 |->
        IF i \in HyphenAt THEN "-"
        ELSE HexLower[u[i - Cardinality({h \in HyphenAt : h < i})] + 1]]

\* uuid's parser on the hyphenated shape: any mistake is an error.
parse_hyphenatedLoose(s) ==
    IF Len(s) # 36 THEN [ok |-> FALSE]
    ELSE [ok |-> TRUE, digits |-> SelectSeq(s, LAMBDA ch : ch # "-")]

parse_hyphenated(s) ==
    IF Len(s) # 36 THEN [ok |-> FALSE]
    ELSE IF \A i \in 1..36 : IF i \in HyphenAt THEN s[i] = "-" ELSE IsHexChar(s[i])
    THEN LET hex == SelectSeq(s, LAMBDA ch : ch # "-") IN
         [ok |-> TRUE, digits |-> [i \in 1..32 |-> HexValue(hex[i])]]
    ELSE [ok |-> FALSE]

parse_simple(s) ==
    IF \A i \in 1..Len(s) : IsHexChar(s[i])
    THEN [ok |-> TRUE, digits |-> [i \in 1..32 |-> HexValue(s[i])]]
    ELSE [ok |-> FALSE]

UrnPrefix == <<"u", "r", "n", ":", "u", "u", "i", "d", ":">>

\* Uuid::parse_str: 32 hex digits, the hyphenated form, that form in braces, or
\* that form after "urn:uuid:"; anything else is an error.
parse_str(s) ==
    IF Len(s) = 32 THEN parse_simple(s)
    ELSE IF Len(s) = 36 THEN parse_hyphenated(s)
    ELSE IF Len(s) = 38 /\ s[1] = "{" /\ s[38] = "}" THEN parse_hyphenated(SubSeq(s, 2, 37))
    ELSE IF Len(s) = 45 /\ SubSeq(s, 1, 9) = UrnPrefix THEN parse_hyphenated(SubSeq(s, 10, 45))
    ELSE [ok |-> FALSE]

\* The uuids the random generator hands out in this model: version 4, variant 1.
UuidNo(k) ==
    [i \in 1..32 |->
        IF i = 13 THEN 4 ELSE IF i = 17 THEN 8 + (k % 4) ELSE (7 * i + 5 * k) % 16]

UuidPool == {UuidNo(k) : k \in 1..NumIds}

\* Uuid::new_v4(): a fresh random uuid (a collision is taken not to happen).
NewV4Reused(used) == UuidPool

NewV4(used) == UuidPool \ used

\* -------------------------------------------------------- observations.rs
JsonSuffix == <<".", "j", "s", "o", "n">>

\* self.cache_dir.join(format!("{}.json", obs_id))
FilePathOf(obs_id) == obs_id \o JsonSuffix

\* serde_json::to_string(&record)
RecordToJson(r) == [t |-> "object", v |-> r]

\* serde_json::from_str::<ObservationRecord>(&json)
RecordFromJson(text) ==
    IF text.t # "object" THEN [ok |-> FALSE]
    ELSE IF ~({"obs_id", "tool", "created_at", "content"} \subseteq DOMAIN text.v)
    THEN [ok |-> FALSE]
    ELSE [ok |-> TRUE, record |-> text.v]

ObsTools == {"analyze-project", "search-patterns"}
ObsContents == {"full output", "{\"k\": \"10 KB of text\"}"}

GotNone == [kind |-> "none"]
GotSome(content) == [kind |-> "some", content |-> content]

\* get, lines 59-67, once the id is validated: existence check, read, parse.
\* Gives the result and the number of filesystem accesses made.
ReadRecordNoCheck(files, path) ==
    IF path \notin DOMAIN files THEN [out |-> Err("read"), ops |-> 1]
    ELSE LET parsed == RecordFromJson(files[path]) IN
         IF parsed.ok THEN [out |-> GotSome(parsed.record.content), ops |-> 1]
         ELSE [out |-> Err("parse"), ops |-> 1]

ReadRecord(files, path) ==
    IF path \notin DOMAIN files THEN [out |-> GotNone, ops |-> 1]
    ELSE LET parsed == RecordFromJson(files[path]) IN
         IF parsed.ok THEN [out |-> GotSome(parsed.record.content), ops |-> 2]
         ELSE [out |-> Err("parse"), ops |-> 2]

\* ObservationStore::get
get(files, obs_id) ==
    IF ~parse_str(obs_id).ok THEN [out |-> Err("Invalid obs_id"), ops |-> 0]
    ELSE ReadRecord(files, FilePathOf(obs_id))

\* ObservationStore::save; create_dir_all may fail ("mkdir"), and so may the
\* write after it created the file ("write").
ObsSave(tool, content, io) ==
    /\ obsRes.op = "none"
    /\ IF io = "mkdir"
       THEN /\ obsRes' = [op |-> "save", status |-> "err"]
            /\ UNCHANGED <<cacheDirExists, obsFiles, usedIds, archived, lastObs>>
       ELSE \E u \in NewV4(usedIds) :
            LET obs_id == Hyphenated(u)
                record == [obs_id |-> obs_id, tool |-> tool,
                           created_at |-> FormatTime(now), content |-> content]
                path == FilePathOf(obs_id)
                text == IF io = "ok" THEN RecordToJson(record) ELSE Garbage
            IN /\ cacheDirExists' = TRUE
               /\ usedIds' = usedIds \cup {u}
               /\ obsFiles' = [f \in DOMAIN obsFiles \cup {path} |->
                                 IF f = path THEN text ELSE obsFiles[f]]
               /\ IF io = "ok"
                  THEN /\ obsRes' = [op |-> "save", status |-> "ok", id |-> obs_id]
                       /\ archived' = [k \in DOMAIN archived \cup {obs_id} |->
                                         IF k = obs_id THEN content ELSE archived[k]]
                       /\ lastObs' = Some([id |-> obs_id, content |-> content])
                  ELSE /\ obsRes' = [op |-> "save", status |-> "err"]
                       /\ UNCHANGED <<archived, lastObs>>

ObsGet(obs_id) ==
    /\ obsRes.op = "none"
    /\ LET r == get(obsFiles, obs_id) IN
       obsRes' = [op |-> "get", id |-> obs_id, out |-> r.out, ops |-> r.ops,
                  dir |-> cacheDirExists]
    /\ UNCHANGED <<cacheDirExists, obsFiles, usedIds, archived, lastObs>>

\* ------------------------------------------------- the ids callers ask for
ReplaceAt(s, i, ch) == [s EXCEPT ![i] = ch]
ToUpper(s) ==
    [i \in DOMAIN s |->
        IF \E k \in 1..16 : s[i] = HexLower[k]
        THEN HexUpper[CHOOSE k \in 1..16 : s[i] = HexLower[k]] ELSE s[i]]
Braced(s) == <<"{">> \o s \o <<"}">>
Urn(s) == UrnPrefix \o s

BaseId == Hyphenated(UuidNo(1))
EtcPasswd == <<".", ".", "/", ".", ".", "/", "e", "t", "c", "/", "p", "a", "s", "s", "w", "d">>
StrayChars == {"/", "\\", ".", "g", "-", "{", "0"}

\* Every generated id in each textual form a uuid has.
WellFormedIds ==
    UNION {{Hyphenated(u), ToUpper(Hyphenated(u)), SimpleForm(u),
            Braced(Hyphenated(u)), Urn(Hyphenated(u))} : u \in UuidPool}
    \cup {Hyphenated(UuidNo(0)), SimpleForm(UuidNo(0)), Urn(Hyphenated(UuidNo(0)))}

\* An id with one character replaced, two adjacent characters made "..", a
\* wrapper half applied, a path put in front, and plain paths.
MalformedIds ==
    ({ReplaceAt(BaseId, i, ch) : i \in 1..36, ch \in StrayChars} \ {BaseId})
    \cup {[BaseId EXCEPT ![i] = ".", ![i + 1] = "."] : i \in 1..35}
    \cup {ReplaceAt(SimpleForm(UuidNo(1)), i, ch) : i \in {1, 16, 32}, ch \in {"/", "\\", "."}}
    \cup {Braced(ReplaceAt(BaseId, i, ch)) : i \in {1, 9, 36}, ch \in {"/", "\\", "."}}
    \cup {Urn(ReplaceAt(BaseId, i, ch)) : i \in {1, 9, 36}, ch \in {"/", "\\", "."}}
    \cup {<<"{">> \o BaseId, BaseId \o <<"}">>, <<"/">> \o BaseId, BaseId \o <<"/">>,
          <<".", ".", "/">> \o BaseId, <<".", ".", "/">> \o SubSeq(BaseId, 1, 33),
          <<".", ".", "/">> \o SubSeq(BaseId, 1, 29), BaseId \o JsonSuffix,
          <<"(">> \o BaseId \o <<")">>, <<"u", "r", "n", ":", "u", "u", "i", "d", "/">> \o BaseId,
          EtcPasswd, <<".", ".">>, <<>>}

\* The caller takes the result; the store is ready for the next call.
ObsReturn ==
    /\ obsRes.op # "none"
    /\ obsRes' = [op |-> "none"]
    /\ UNCHANGED <<cacheDirExists, obsFiles, usedIds, archived, lastObs>>

GetInputs == WellFormedIds \cup MalformedIds

ObsInit ==
    /\ now = 0 /\ file = Absent
    /\ ctx = [c \in Callers |-> None]
    /\ pc = [c \in Callers |-> "idle"]
    /\ pending = [c \in Callers |-> Garbage]
    /\ ret = NoRet /\ firstCreated = None /\ savedCtx = None /\ NoneSeen
    /\ cacheDirExists \in BOOLEAN
    /\ obsFiles = <<>> /\ usedIds = {} /\ archived = <<>>
    /\ lastObs = None /\ obsRes = [op |-> "none"]
    /\ FmtIdle
    /\ AuxIdle

ObsNext ==
    \/ \E tool \in ObsTools, content \in ObsContents, io \in {"ok", "mkdir", "write"} :
          ObsSave(tool, content, io) /\ UNCHANGED <<ctxVars, fmtVars, auxVars>>
    \/ \E obs_id \in GetInputs : ObsGet(obs_id) /\ UNCHANGED <<ctxVars, fmtVars, auxVars>>
    \/ ObsReturn /\ UNCHANGED <<ctxVars, fmtVars, auxVars>>

SpecObs == ObsInit /\ [][ObsNext]_vars

\* --------------------------------------------- rustscp.rs: format_for_claude
\* The text is modelled line by line: every "\n" the code pushes ends a line.
BlankLine == [kind |-> "blank"]

\* self.stats.by_extension.iter(): a HashMap yields its entries in an order the
\* hasher decides; any order can come out.
IterOrders(m) ==
    {o \in [1..Cardinality(DOMAIN m) -> DOMAIN m] :
        \A i, j \in DOMAIN o : i # j => o[i] # o[j]}

Entries(m, o) == [i \in DOMAIN o |-> [ext |-> o[i], count |-> m[o[i]]]]

\* exts.sort_by(|a, b| b.1.cmp(a.1)): a stable sort, by count descending alone.
RECURSIVE InsertByCount(_, _)
InsertByCount(sorted, x) ==
    IF sorted = <<>> THEN <<x>>
    ELSE IF Head(sorted).count >= x.count
         THEN <<Head(sorted)>> \o InsertByCount(Tail(sorted), x)
         ELSE <<x>> \o sorted

RECURSIVE SortByCountDesc(_)
SortByCountDesc(es) ==
    IF es = <<>> THEN <<>>
    ELSE InsertByCount(SortByCountDesc(SubSeq(es, 1, Len(es) - 1)), es[Len(es)])

\* self.dependencies.iter().filter(|d| !d.dev).collect()
AllDeps(deps) == deps

ProdDeps(deps) == SelectSeq(deps, LAMBDA d : ~d.dev)

\* {:.2} of a score held in thousandths (no score of the model ends in 5).
FormatScore(s) == (s + 5) \div 10

\* updated_at.format("%Y-%m-%d %H:%M UTC"): the minute, nothing finer.
FormatMinute(t) == t \div (60 * TicksPerSec)

format_for_claude(self, order) ==
    LET head ==
            <<[kind |-> "title", name |-> self.name],
              BlankLine,
              [kind |-> "type", project_type |-> self.project_type,
               framework |-> IF self.framework.some THEN self.framework.v ELSE "n/a"],
              [kind |-> "files", total |-> self.stats.total_files,
               breakdown |-> SortByCountDesc(Entries(self.stats.by_extension, order))]>>
        prod_deps == ProdDeps(self.dependencies)
        deps ==
            IF prod_deps # <<>>
            THEN <<BlankLine, [kind |-> "deps_header", count |-> Len(prod_deps)], BlankLine>>
                 \o [i \in DOMAIN prod_deps |->
                        [kind |-> "dep", name |-> prod_deps[i].name,
                         version |-> prod_deps[i].version]]
            ELSE <<>>
        pats ==
            IF self.matched_patterns # <<>>
            THEN <<BlankLine,
                   [kind |-> "patterns_header", count |-> Len(self.matched_patterns)],
                   BlankLine>>
                 \o [i \in DOMAIN self.matched_patterns |->
                        [kind |-> "pattern", title |-> self.matched_patterns[i].title,
                         category |-> self.matched_patterns[i].category,
                         score |-> FormatScore(self.matched_patterns[i].score)]]
            ELSE <<>>
        foot ==
            <<BlankLine, [kind |-> "rule"],
              [kind |-> "updated", minute |-> FormatMinute(self.updated_at)]>>
    IN head \o deps \o pats \o foot

\* ------------------------------------------------- inputs of from_analysis
SeqsUpTo(S, n) == UNION {[1..k -> S] : k \in 0..n}

MetadataValues ==
    [target_framework : {None, Some(""), Some("net8.0")},
     rust_edition : {None, Some(""), Some("2021")},
     node_version : {None, Some(""), Some("20")},
     python_version : {None, Some(""), Some("3.12")}]

\* Extension names, in ascending order.
Languages == <<"md", "rs", "toml">>

DepChoices == {Dep(n, "1.0", d) : n \in {"serde", "tokio"}, d \in BOOLEAN}
PatternChoices ==
    {Pattern("p1", "Error handling", "errors", 874), Pattern("p2", "Builder", "design", 333)}

\* Each part of the analysis result varied over all its values, the rest held.
FmtAnalyses ==
    {[AnalysisAlpha EXCEPT !.project.metadata = m] : m \in MetadataValues}
    \cup {[AnalysisAlpha EXCEPT !.project.dependencies = d] : d \in SeqsUpTo(DepChoices, MaxDeps)}
    \cup {[AnalysisAlpha EXCEPT !.project.files = [i \in DOMAIN f |-> SourceFile(f[i])]] :
             f \in SeqsUpTo({Languages[k] : k \in DOMAIN Languages}, MaxFiles)}
    \cup {[AnalysisAlpha EXCEPT !.patterns = q] : q \in SeqsUpTo(PatternChoices, MaxPatterns)}
    \cup {[AnalysisBeta EXCEPT !.project.project_type = t] : t \in ProjectTypes}

FmtBuild ==
    /\ ~built.some
    /\ built' = Some(from_analysis(analysis, now))
    /\ UNCHANGED <<analysis, rendered>>

FmtRender(order) ==
    /\ built.some
    /\ ~rendered.some
    /\ rendered' = Some(format_for_claude(built.v, order))
    /\ UNCHANGED <<analysis, built>>

FmtInit ==
    /\ now \in 0..MaxClock /\ file = Absent
    /\ ctx = [c \in Callers |-> None]
    /\ pc = [c \in Callers |-> "idle"]
    /\ pending = [c \in Callers |-> Garbage]
    /\ ret = NoRet /\ firstCreated = None /\ savedCtx = None /\ NoneSeen
    /\ ObsIdle
    /\ analysis \in FmtAnalyses /\ built = None /\ rendered = None
    /\ AuxIdle

FmtNext ==
    \/ FmtBuild /\ UNCHANGED <<ctxVars, obsVars, auxVars>>
    \/ /\ built.some
       /\ \E order \in IterOrders(built.v.stats.by_extension) : FmtRender(order)
       /\ UNCHANGED <<ctxVars, obsVars, auxVars>>

SpecFmt == FmtInit /\ [][FmtNext]_vars

\* ------------------------------------------------------------ main.rs: main
\* args.len() >= 3 && args[1] == "read-context"  (args[0] is the program name)
ReadContextRequestedStrict(args) == Len(args) > 3 /\ args[2] = "read-context"

ReadContextRequested(args) == Len(args) >= 3 /\ args[2] = "read-context"

Returned(code) == [how |-> "return", code |-> code]
\* std::process::exit(code): the process ends there, main does not return.
ProcessExit(code) == [how |-> "process_exit", code |-> code]
\* main returns Err(e): the runtime prints it to stderr and the status is 1.
ReturnedErr(m) ==
    [m EXCEPT !.at = "done", !.exit = Returned(1),
              !.stderr = Append(@, [kind |-> "error", text |-> "Error"])]

\* lines 19-35: the read-context subcommand, on the directory args[2].
MainReadContext(order) ==
    /\ main.at = "start"
    /\ ReadContextRequested(main.args)
    /\ LET loaded == load(file) IN
       /\ loaded.kind = "some" => order \in IterOrders(loaded.ctx.stats.by_extension)
       /\ loaded.kind # "some" => order = <<>>
       /\ main' =
            CASE loaded.kind = "some" ->
                    [main EXCEPT !.at = "done", !.exit = Returned(0),
                                 !.stdout = @ \o format_for_claude(loaded.ctx, order)]
              [] loaded.kind = "none" ->
                    [main EXCEPT !.at = "done", !.exit = Returned(0)]
              [] loaded.kind = "err" ->
                    [main EXCEPT !.at = "done", !.exit = ProcessExit(1),
                                 !.stderr = Append(@, [kind |-> "error",
                                                       text |-> "Error reading .rustscp"])]

\* lines 39-51: the default path sets tracing up, writing to stderr only.
MainInitTracing ==
    /\ main.at = "start"
    /\ ~ReadContextRequested(main.args)
    /\ main' = [main EXCEPT !.at = "config", !.tracing = TRUE]

\* line 54: config::Config::load()?
MainLoadConfig(ok) ==
    /\ main.at = "config"
    /\ main' = IF ok THEN [main EXCEPT !.at = "server"] ELSE ReturnedErr(main)

\* line 58: mcp::Server::new(config).await?
MainNewServer(ok) ==
    /\ main.at = "server"
    /\ main' = IF ok THEN [main EXCEPT !.at = "run", !.server = "initialized"]
               ELSE ReturnedErr(main)

\* line 62: server.run().await, entered.
MainRunServer ==
    /\ main.at = "run"
    /\ main' = [main EXCEPT !.at = "serving", !.server = "started"]

\* lines 62-64: server.run() comes back, with `?` on its error.
MainServerStops(ok) ==
    /\ main.at = "serving"
    /\ main' = IF ok THEN [main EXCEPT !.at = "done", !.exit = Returned(0)]
               ELSE ReturnedErr(main)

ProgramName == "mcp-context-rust"
MainArgs ==
    {<<ProgramName>>, <<ProgramName, "read-context">>,
     <<ProgramName, "read-context", "proj">>,
     <<ProgramName, "read-context", "proj", "extra">>,
     <<ProgramName, "serve", "proj">>}

\* The context files main can meet: none, corrupt ones, and saved contexts.
MainFiles ==
    {Absent, FileWith(Garbage), FileWith(ForeignJson)}
    \cup {FileWith(to_json(from_analysis(a, t))) : a \in FmtAnalyses, t \in 0..MaxClock}

MainInit ==
    /\ now = 0 /\ file \in MainFiles
    /\ ctx = [c \in Callers |-> None]
    /\ pc = [c \in Callers |-> "idle"]
    /\ pending = [c \in Callers |-> Garbage]
    /\ ret = NoRet /\ firstCreated = None /\ savedCtx = None /\ NoneSeen
    /\ ObsIdle
    /\ FmtIdle
    /\ main \in {MainAt("start", args) : args \in MainArgs}
    /\ UtilIdle

MainOrders ==
    {<<>>} \cup UNION {IterOrders(from_analysis(a, 0).stats.by_extension) : a \in FmtAnalyses}

MainNext ==
    \/ \E order \in MainOrders : MainReadContext(order) /\ UNCHANGED <<ctxVars, obsVars, fmtVars, util>>
    \/ MainInitTracing /\ UNCHANGED <<ctxVars, obsVars, fmtVars, util>>
    \/ \E ok \in BOOLEAN : MainLoadConfig(ok) /\ UNCHANGED <<ctxVars, obsVars, fmtVars, util>>
    \/ \E ok \in BOOLEAN : MainNewServer(ok) /\ UNCHANGED <<ctxVars, obsVars, fmtVars, util>>
    \/ MainRunServer /\ UNCHANGED <<ctxVars, obsVars, fmtVars, util>>
    \/ \E ok \in BOOLEAN : MainServerStops(ok) /\ UNCHANGED <<ctxVars, obsVars, fmtVars, util>>

SpecMain == MainInit /\ [][MainNext]_vars

\* ------------------------------------- types.rs: SeverityLevel's derived Ord
\* The variants ordered by their names.
DiscriminantByName(level) ==
    CASE level = "Error" -> 0 [] level = "Info" -> 1 [] level = "Warning" -> 2

\* #[derive(PartialOrd, Ord)] on an enum compares the variants by discriminant,
\* which is the position in the declaration, from 0.
Discriminant(level) == (CHOOSE i \in DOMAIN SeverityLevels : SeverityLevels[i] = level) - 1

\* Ord::cmp(&a, &b)
cmp(a, b) ==
    IF Discriminant(a) < Discriminant(b) THEN "Less"
    ELSE IF Discriminant(a) = Discriminant(b) THEN "Equal"
    ELSE "Greater"

\* ---------------------------------------------- utils/mod.rs: truncate_string
\* A string is the sequence of its chars; a char takes 1 to 4 bytes in UTF-8.
\* "e'" stands for U+00E9 (2 bytes), "crab" for U+1F980 (4 bytes).
Chars == {"a", ".", "e'", "crab"}
Utf8Len(ch) == CASE ch = "e'" -> 2 [] ch = "crab" -> 4 [] OTHER -> 1

RECURSIVE ByteLen(_)
\* s.len(): the length in bytes.
ByteLen(s) == IF s = <<>> THEN 0 ELSE Utf8Len(Head(s)) + ByteLen(Tail(s))

\* s.chars().count()
CharCount(s) == Len(s)

\* s.chars().take(n).collect()
Take(s, n) == SubSeq(s, 1, IF n < Len(s) THEN n ELSE Len(s))

Ellipsis == <<".", ".", ".">>

truncate_string(s, max_len) ==
    IF max_len < 4 THEN Take(s, max_len)
    ELSE LET char_count == CharCount(s) IN
         IF char_count <= max_len THEN s
         ELSE Take(s, max_len - 3) \o Ellipsis

UtilCompare ==
    /\ ~util.order.some
    /\ LET a == util.levels[1]
           b == util.levels[2]
           c == util.levels[3]
       IN util' = [util EXCEPT !.order = Some([ab |-> cmp(a, b), ba |-> cmp(b, a),
                                              bc |-> cmp(b, c), ac |-> cmp(a, c)])]

UtilTruncate ==
    /\ ~util.out.some
    /\ util' = [util EXCEPT !.out = Some(truncate_string(util.s, util.max_len))]

LevelSet == {SeverityLevels[i] : i \in DOMAIN SeverityLevels}

\* Every triple of levels with one string, and every string and length with one triple.
UtilInputs ==
    {UtilAt(l, <<"a", "e'", "crab">>, 2) : l \in [1..3 -> LevelSet]}
    \cup {UtilAt(<<"Info", "Warning", "Error">>, s, n) :
             s \in SeqsUpTo(Chars, MaxStrLen), n \in 0..(MaxStrLen + 1)}

UtilInit ==
    /\ now = 0 /\ file = Absent
    /\ ctx = [c \in Callers |-> None]
    /\ pc = [c \in Callers |-> "idle"]
    /\ pending = [c \in Callers |-> Garbage]
    /\ ret = NoRet /\ firstCreated = None /\ savedCtx = None /\ NoneSeen
    /\ ObsIdle
    /\ FmtIdle
    /\ MainIdle
    /\ util \in UtilInputs

UtilNext ==
    \/ UtilCompare /\ UNCHANGED <<ctxVars, obsVars, fmtVars, main>>
    \/ UtilTruncate /\ UNCHANGED <<ctxVars, obsVars, fmtVars, main>>

SpecUtil == UtilInit /\ [][UtilNext]_vars

\* ------------------------------------------------------------------ claims
\* C1: with at most one save in flight, the created_at a caller holds after every
\* successful save, and the created_at every later load returns, is the created_at
\* the first successful save on the directory wrote.
C1_CreatedAtPreserved ==
    /\ (ret.op = "save" /\ ret.status = "ok") =>
          ret.held.created_at = firstCreated.v.at
    /\ (ret.op = "load" /\ ret.first.some /\ ret.out.kind = "some") =>
          ret.out.ctx.created_at = ret.first.v.at

\* A later save by the other caller, at a later time, still holds the first one.
C1_Witness ==
    /\ ret.op = "save" /\ ret.status = "ok" /\ ret.by = "b"
    /\ firstCreated.some /\ firstCreated.v.by = "a" /\ firstCreated.v.at = 1
    /\ ret.held.created_at = 1 /\ ret.held.updated_at = 3

\* The two ways the context file of this model fails to parse.
Unparsable(text) == text \in {Garbage, ForeignJson}

\* C2: load gives None, never an error, when there is no context file, and an
\* error, never None or a value, when the file is there and cannot be parsed.
C2_LoadNoneOrError ==
    ret.op = "load" =>
        /\ (~ret.snap.exists => ret.out.kind = "none")
        /\ (ret.snap.exists /\ Unparsable(ret.snap.text) => ret.out.kind = "err")

\* A load of the file a save's failed write cut short.
C2_Witness ==
    /\ ret.op = "load" /\ ret.first.some
    /\ ret.snap = FileWith(Garbage) /\ ret.out.kind = "err"

\* C3: a load after a successful save returns a context equal in every field to
\* the one the saving caller holds after that save.
C3_RoundTrip ==
    (ret.op = "load" /\ ret.expect.some) =>
        /\ ret.out.kind = "some"
        /\ ret.out.ctx = ret.expect.v

\* The context with a dev dependency, a framework and a sub-second timestamp.
C3_Witness ==
    /\ ret.op = "load" /\ ret.expect.some /\ ret.out.kind = "some"
    /\ ret.expect.v.name = "alpha"
    /\ ret.expect.v.updated_at % TicksPerSec = 1
    /\ ret.expect.v.created_at # ret.expect.v.updated_at

\* What the claims call a path component: a separator or a "..".
HasTraversal(s) ==
    \/ \E i \in 1..Len(s) : s[i] \in {"/", "\\"}
    \/ \E i \in 1..(Len(s) - 1) : s[i] = "." /\ s[i + 1] = "."

HexCharSet ==
    {"0", "1", "2", "3", "4", "5", "6", "7", "8", "9",
     "a", "b", "c", "d", "e", "f", "A", "B", "C", "D", "E", "F"}

\* The text of a uuid: 8-4-4-4-12 hex digits, bare, in braces or as a urn, or
\* the 32 digits alone.
GroupedHex(b) ==
    /\ Len(b) = 36
    /\ \A i \in 1..36 : IF i \in {9, 14, 19, 24} THEN b[i] = "-" ELSE b[i] \in HexCharSet

UuidSyntax(s) ==
    \/ Len(s) = 32 /\ \A i \in 1..32 : s[i] \in HexCharSet
    \/ GroupedHex(s)
    \/ Len(s) = 38 /\ s[1] = "{" /\ s[38] = "}" /\ GroupedHex(SubSeq(s, 2, 37))
    \/ Len(s) = 45 /\ SubSeq(s, 1, 9) = UrnPrefix /\ GroupedHex(SubSeq(s, 10, 45))

\* C4: get fails for every obs_id that is not the text of a uuid, so for every
\* one holding "/", "\" or "..", and touches the filesystem not once before it
\* returns that error.
C4_InvalidIdRejected ==
    (obsRes.op = "get" /\ (HasTraversal(obsRes.id) \/ ~UuidSyntax(obsRes.id))) =>
        /\ obsRes.out.kind = "err"
        /\ obsRes.ops = 0

\* A 36-character id with a separator in it, asked for while the archive holds
\* records.
C4_Witness ==
    /\ obsRes.op = "get" /\ obsRes.id = ReplaceAt(BaseId, 3, "/")
    /\ obsFiles # <<>> /\ obsRes.out.kind = "err"

\* C5: get with the text of a uuid under which nothing was ever saved gives
\* None, not an error, also when the archive directory does not exist.
C5_UnknownIdIsNone ==
    (obsRes.op = "get" /\ UuidSyntax(obsRes.id)
        /\ parse_str(obsRes.id).digits \notin usedIds) =>
        obsRes.out.kind = "none"

C5_Witness ==
    /\ obsRes.op = "get" /\ obsRes.id = BaseId /\ ~obsRes.dir
    /\ obsRes.out.kind = "none"

\* C6: save returns a 36-character uuid string, and get with exactly that
\* string returns the content that was archived.
C6_SaveThenGet ==
    /\ (obsRes.op = "save" /\ obsRes.status = "ok") =>
          /\ Len(obsRes.id) = 36
          /\ GroupedHex(obsRes.id)
          /\ lastObs.v.id = obsRes.id
    /\ (obsRes.op = "get" /\ lastObs.some /\ obsRes.id = lastObs.v.id) =>
          /\ obsRes.out.kind = "some"
          /\ obsRes.out.content = lastObs.v.content

C6_Witness ==
    /\ obsRes.op = "get" /\ lastObs.some /\ obsRes.id = lastObs.v.id
    /\ obsRes.out.kind = "some"
    /\ obsRes.out.content = "{\"k\": \"10 KB of text\"}"

\* C7: the archive is append-only: no step changes or removes a file that is
\* there, and a get with an id an earlier save returned gives what was archived
\* under it.
C7_AppendOnly ==
    [][/\ \A f \in DOMAIN obsFiles : f \in DOMAIN obsFiles' /\ obsFiles'[f] = obsFiles[f]
       /\ (obsRes'.op = "get" /\ obsRes'.id \in DOMAIN archived') =>
             /\ obsRes'.out.kind = "some"
             /\ obsRes'.out.content = archived'[obsRes'.id]]_vars

\* The older of two records, read after the newer one was archived.
C7_Witness ==
    /\ obsRes.op = "get" /\ Cardinality(DOMAIN archived) = 2
    /\ obsRes.id \in DOMAIN archived /\ obsRes.id # lastObs.v.id
    /\ obsRes.out.kind = "some" /\ obsRes.out.content # lastObs.v.content

\* The priority order of the framework label's sources.
FrameworkPriority == <<"target_framework", "rust_edition", "node_version", "python_version">>

\* The first field, in priority order, that Wins; absent when none does.
FirstField(m, Wins(_)) ==
    LET hits == {i \in DOMAIN FrameworkPriority : Wins(m[FrameworkPriority[i]])} IN
    IF hits = {} THEN None
    ELSE m[FrameworkPriority[CHOOSE i \in hits : \A j \in hits : i <= j]]

IsPresent(o) == o.some
IsNonEmpty(o) == o.some /\ o.v # ""

\* C8, as claimed: the framework label is the first non-empty field in the
\* priority order, absent when no field is non-empty; a present but empty field
\* never wins over a later non-empty one.
C8_FirstNonEmptyWins ==
    built.some => built.v.framework = FirstField(analysis.project.metadata, IsNonEmpty)

\* C8, amended: the framework label is the first present field in the priority
\* order, absent when no field is present; whether a present field is empty is
\* not looked at, so a present but empty field wins over every later field.
C8_FirstPresentWins ==
    built.some => built.v.framework = FirstField(analysis.project.metadata, IsPresent)

\* An empty target_framework in front of a rust edition: the empty one is taken.
C8_Witness ==
    /\ built.some
    /\ analysis.project.metadata.target_framework = Some("")
    /\ analysis.project.metadata.rust_edition = Some("2021")
    /\ built.v.framework = Some("")

NameBefore(a, b) ==
    \E i, j \in DOMAIN Languages : Languages[i] = a /\ Languages[j] = b /\ i < j

\* The extension breakdown of a rendering: the fourth line's list.
BreakdownOf(lines) == lines[4].breakdown

\* C9: the breakdown is in count-descending order with equal counts in
\* ascending order of extension name.
C9_BreakdownOrdered ==
    rendered.some =>
        LET b == BreakdownOf(rendered.v) IN
        \A i \in 1..(Len(b) - 1) :
            \/ b[i].count > b[i + 1].count
            \/ b[i].count = b[i + 1].count /\ NameBefore(b[i].ext, b[i + 1].ext)

\* C10: the Dependencies section lists exactly the dependencies whose dev flag
\* is false, in the order of the context's list, under a header carrying their
\* number; with no such dependency there is no section.
C10_ProdDepsListed ==
    rendered.some =>
        LET prod == SelectSeq(built.v.dependencies, LAMBDA d : d.dev = FALSE)
            listed == SelectSeq(rendered.v, LAMBDA l : l.kind = "dep")
            headers == SelectSeq(rendered.v, LAMBDA l : l.kind = "deps_header")
        IN /\ Len(listed) = Len(prod)
           /\ \A i \in DOMAIN prod :
                 listed[i].name = prod[i].name /\ listed[i].version = prod[i].version
           /\ headers = IF prod = <<>> THEN <<>>
                        ELSE <<[kind |-> "deps_header", count |-> Len(prod)]>>

\* A dev dependency in front of a production one: only the second is listed.
C10_Witness ==
    /\ rendered.some
    /\ Len(built.v.dependencies) = 2
    /\ built.v.dependencies[1].dev /\ ~built.v.dependencies[2].dev
    /\ Len(SelectSeq(rendered.v, LAMBDA l : l.kind = "dep")) = 1

\* C11 as stated: the first line is the title line and the second line carries
\* the project type string.
C11_TypeOnSecondLine ==
    rendered.some =>
        /\ rendered.v[1].kind = "title"
        /\ rendered.v[1].name = built.v.name
        /\ rendered.v[2].kind = "type"
        /\ rendered.v[2].project_type = built.v.project_type

\* C11: the first line is the title line with the project name, the second line
\* is empty and the third line carries the project type string, which for a
\* Rust project is "rust".
C11_TypeOnThirdLine ==
    rendered.some =>
        /\ rendered.v[1] = [kind |-> "title", name |-> analysis.project.name]
        /\ rendered.v[2] = BlankLine
        /\ rendered.v[3].kind = "type"
        /\ rendered.v[3].project_type = built.v.project_type
        /\ analysis.project.project_type = "Rust" => rendered.v[3].project_type = "rust"

\* A rendered Rust project: its third line reads "rust".
C11_Witness ==
    /\ rendered.some
    /\ analysis.project.project_type = "Rust"
    /\ rendered.v[3].kind = "type"
    /\ rendered.v[3].project_type = "rust"

IsCorruptFile == file.exists /\ Unparsable(file.text)

\* C12: read-context run on a directory with no context file writes nothing to
\* standard output, ends by returning success, and never sets tracing up nor
\* initializes or starts the server.
C12_SilentOnMissingFile ==
    (Len(main.args) >= 3 /\ main.args[2] = "read-context" /\ file = Absent) =>
        /\ main.stdout = <<>>
        /\ main.tracing = FALSE
        /\ main.server = "none"
        /\ main.at \in {"start", "done"}
        /\ main.at = "done" => main.exit = [how |-> "return", code |-> 0]

\* read-context <dir> has run to its end on a directory without a context file.
C12_Witness ==
    /\ main.args = <<ProgramName, "read-context", "proj">>
    /\ file = Absent
    /\ main.at = "done"
    /\ main.exit.code = 0

\* C13: read-context run on a directory whose context file is corrupt writes an
\* error message to stderr, prints no context text to stdout, and does not
\* hard-exit the process with a failure status.
C13_LogAndContinue ==
    (Len(main.args) >= 3 /\ main.args[2] = "read-context" /\ IsCorruptFile
        /\ main.at = "done") =>
        /\ main.stderr # <<>>
        /\ main.stdout = <<>>
        /\ ~(main.exit.how = "process_exit" /\ main.exit.code # 0)

\* C14: from_analysis gives one pattern reference per matched pattern of the
\* analysis result, in the same order, each with that pattern's id, title,
\* category and relevance score and no other field (no code body), and
\* format_for_claude lists the matched patterns in that order.
C14_PatternRefsInOrder ==
    /\ built.some =>
          LET refs == built.v.matched_patterns IN
          /\ Len(refs) = Len(analysis.patterns)
          /\ \A i \in DOMAIN refs :
                /\ DOMAIN refs[i] = {"id", "title", "category", "score"}
                /\ refs[i].id = analysis.patterns[i].id
                /\ refs[i].title = analysis.patterns[i].title
                /\ refs[i].category = analysis.patterns[i].category
                /\ refs[i].score = analysis.patterns[i].relevance_score
    /\ rendered.some =>
          LET listed == SelectSeq(rendered.v, LAMBDA l : l.kind = "pattern") IN
          /\ Len(listed) = Len(analysis.patterns)
          /\ \A i \in DOMAIN listed :
                /\ listed[i].title = analysis.patterns[i].title
                /\ listed[i].category = analysis.patterns[i].category

\* Two different patterns, rendered in the analysis result's order.
C14_Witness ==
    /\ rendered.some
    /\ Len(analysis.patterns) = 2
    /\ analysis.patterns[1].id # analysis.patterns[2].id
    /\ analysis.patterns[1].code # ""
    /\ SelectSeq(rendered.v, LAMBDA l : l.kind = "pattern")[2].title = analysis.patterns[2].title

\* C15: SeverityLevel is totally ordered with Info < Warning < Error: of two
\* levels exactly one of less, equal, greater holds (equal exactly for the same
\* level, less one way exactly when greater the other way), and less is
\* transitive.
C15_SeverityTotalOrder ==
    util.order.some =>
        LET a == util.levels[1]
            b == util.levels[2]
            c == util.levels[3]
            o == util.order.v
        IN /\ o.ab \in {"Less", "Equal", "Greater"}
           /\ (o.ab = "Equal") <=> (a = b)
           /\ (o.ab = "Less") <=> (o.ba = "Greater")
           /\ (o.ab = "Less" /\ o.bc = "Less") => o.ac = "Less"
           /\ (a = "Info" /\ b = "Warning") => o.ab = "Less"
           /\ (b = "Warning" /\ c = "Error") => o.bc = "Less"
           /\ (a = "Info" /\ c = "Error") => o.ac = "Less"

\* Info, Warning and Error compared with each other.
C15_Witness ==
    /\ util.order.some
    /\ util.levels = <<"Info", "Warning", "Error">>
    /\ util.order.v.ab = "Less" /\ util.order.v.bc = "Less" /\ util.order.v.ac = "Less"

C16_WitnessWhole ==
    /\ util.out.some
    /\ util.s = <<"e'", "crab", "e'", "a">>
    /\ util.max_len = 4
    /\ util.out.v = util.s

\* C17: saves to one context path are not serialized. A save whose load was
\* overtaken by another caller's successful save still succeeds whenever its
\* own write does, and the file then holds this call's record alone: created_at
\* and all the rest are what this caller holds, and of the other call's record,
\* reported saved, nothing is kept.
C17_OvertakenSaveOverwrites ==
    (ret.op = "save" /\ "overtaken" \in DOMAIN ret /\ ret.overtaken.some) =>
        /\ ret.io = "ok" => ret.status = "ok"
        /\ ret.status = "ok" =>
              /\ load(file) = OkSome(ret.held)
              /\ ret.held # ret.overtaken.v => file # FileWith(to_json(ret.overtaken.v))

\* Two saves on a directory without a file, in flight together, both reported
\* successful: the callers hold different created_at values and the file holds
\* the later writer's alone.
C17_Witness ==
    /\ ret.op = "save" /\ ret.status = "ok"
    /\ "overtaken" \in DOMAIN ret /\ ret.overtaken.some
    /\ ~ret.seen.exists
    /\ \E d \in Callers \ {ret.by} :
          /\ ctx[d] = ret.overtaken
          /\ ctx[d].v.created_at # ctx[ret.by].v.created_at
          /\ firstCreated.v.by = d
    /\ load(file) = OkSome(ctx[ret.by].v)
    /\ file # FileWith(to_json(ret.overtaken.v))

\* A step in which caller c's save starts: it either fails in load and returns,
\* or goes on to its write.
SaveStarts(c) ==
    /\ pc[c] = "idle"
    /\ \/ pc'[c] = "write"
       \/ ret'.op = "save" /\ ret'.by = c /\ pc'[c] = "idle"

\* C18: a save on a directory whose context file exists and cannot be parsed
\* returns an error before any write: no write is pending, the file is as it
\* was, and the caller's context, created_at and updated_at included, is as it
\* was.
C18_CorruptFileFailsSave ==
    [][\A c \in Callers :
          (IsCorruptFile /\ SaveStarts(c)) =>
              /\ ret'.op = "save" /\ ret'.by = c /\ ret'.status = "err"
              /\ pc'[c] = "idle"
              /\ file' = file
              /\ ctx'[c].v.created_at = ctx[c].v.created_at
              /\ ctx'[c].v.updated_at = ctx[c].v.updated_at
              /\ ctx'[c] = ctx[c]]_vars

\* A save has failed on a corrupt file, later than the caller built its context.
C18_Witness ==
    /\ ret.op = "save" /\ ret.status = "err"
    /\ "io" \notin DOMAIN ret
    /\ IsCorruptFile
    /\ ctx[ret.by].v.updated_at < now

\* The timestamps of the context file, when it holds a context.
OnDisk == load(file)

\* C19: with the clock never going backwards and at most one save in flight,
\* every context file holds created_at <= updated_at, and the updated_at on
\* disk never decreases from one successful save to the next.
C19_TimestampsOrdered ==
    /\ [](OnDisk.kind = "some" => OnDisk.ctx.created_at <= OnDisk.ctx.updated_at)
    /\ [][(ret'.op = "save" /\ ret'.status = "ok") =>
              /\ load(file').kind = "some"
              /\ load(file').ctx.updated_at = lastSaved'.v
              /\ lastSaved.some => lastSaved.v <= lastSaved'.v]_vars

\* Two successful saves at different times by different callers: the file's
\* updated_at has grown and is later than its created_at.
C19_Witness ==
    /\ ret.op = "save" /\ ret.status = "ok"
    /\ firstCreated.v.by # ret.by
    /\ ret.seen.exists
    /\ load(ret.seen).ctx.updated_at < lastSaved.v
    /\ OnDisk.kind = "some"
    /\ OnDisk.ctx.created_at < OnDisk.ctx.updated_at
    /\ OnDisk.ctx.updated_at = now

====
